---- MODULE Spec2Model ----
(***************************************************************************)
(* Model of src/parse_khl.py: the KHL calendar parser for HC "Sibir".      *)
(*                                                                         *)
(* Text is modelled character by character: a Python str is a sequence of  *)
(* one-character tokens.  ASCII characters stand for themselves.  The      *)
(* Cyrillic letters of the source are written with these tokens:           *)
(*   capital  С "S_"  О "O_"  Т "T_"  Б "B_"  У "U_"  Л "L_"               *)
(*            Ц "C_"  К "K_"  А "A_"  Х "H_"                               *)
(*   small    а "a" б "b" в "v" г "g" д "d" е "e" и "i" к "k" л "l" м "m"  *)
(*            н "n" о "o" п "p" р "r" с "s" т "t" у "u" ф "f" ь "q"        *)
(*            ю "yu" я "ya"                                                *)
(*   en dash  "–" is "--"                                                  *)
(* Latin capitals (O, T, S) are the tokens "O", "T", "S".                  *)
(***************************************************************************)
EXTENDS Integers, Sequences, FiniteSets, TLC

VARIABLES
    pc,            \* position of the call being run
    text,          \* argument of _find_final_score
    found,         \* value returned by _find_final_score
    args,          \* arguments of _build_match_dict
    rec,           \* value returned by _build_match_dict
    html,          \* the page: selector results, table rows, text lines
    cards,         \* parse_matches: cards
    ci,            \* parse_matches: position of the card loop
    current_date,  \* parse_matches: current_date of the card loop
    ri,            \* parse_matches: position of the row loop
    li,            \* _parse_text: position of the line loop
    tdate,         \* _parse_text: current_date
    tmatches,      \* _parse_text: matches
    matches,       \* parse_matches: matches (and main: matches)
    calls,         \* main: how often fetch_page, parse_matches, create_excel ran
    exit_status    \* main: exit status of the process, -1 while running

vars == <<pc, text, found, args, rec, html, cards, ci, current_date, ri, li,
          tdate, tmatches, matches, calls, exit_status>>

(***************************************************************************)
(* Bounds of the model.                                                    *)
(***************************************************************************)
MaxLen == 8        \* longest text given to _find_final_score alone
MaxTokens == 5     \* longest text line, in space-separated words
MaxLines == 3      \* most lines of a text given to _parse_text alone
MaxCells == 4      \* most cells of a table row
MaxCards == 3      \* most card fragments of a page given to the card loop alone
MaxPart == 3       \* most cards, rows and lines, counted together, of a page given to main

(***************************************************************************)
(* Characters and strings.                                                 *)
(***************************************************************************)
None == [none |-> TRUE]

TEAM_NAME == <<"S_", "i", "b", "i", "r", "q">>

Digits == {"0", "1", "2", "3", "4", "5", "6", "7", "8", "9"}

DigitValue(c) ==
    CASE c = "0" -> 0 [] c = "1" -> 1 [] c = "2" -> 2 [] c = "3" -> 3
      [] c = "4" -> 4 [] c = "5" -> 5 [] c = "6" -> 6 [] c = "7" -> 7
      [] c = "8" -> 8 [] c = "9" -> 9

IsDigit(c) == c \in Digits

IsSpace(c) == c = " "

IsSep(c) == c \in {":", "--", "-"}

\* s[a:b] of Python, with 1-based a and exclusive 1-based b
Slice(s, a, b) == IF b <= a THEN <<>> ELSE SubSeq(s, a, b - 1)

\* int(s) for a string of decimal digits
RECURSIVE ToInt(_)
ToInt(s) ==
    IF s = <<>> THEN 0
    ELSE 10 * ToInt(SubSeq(s, 1, Len(s) - 1)) + DigitValue(s[Len(s)])

\* sub in s
Contains(sub, s) ==
    \E p \in 1..(Len(s) - Len(sub) + 1) : SubSeq(s, p, p + Len(sub) - 1) = sub

\* whether sub occurs in s at position p
StartsAt(s, p, sub) ==
    /\ p + Len(sub) - 1 <= Len(s)
    /\ SubSeq(s, p, p + Len(sub) - 1) = sub

\* s.strip()
RECURSIVE LStrip(_)
LStrip(s) == IF s # <<>> /\ IsSpace(s[1]) THEN LStrip(Tail(s)) ELSE s

RECURSIVE RStrip(_)
RStrip(s) ==
    IF s # <<>> /\ IsSpace(s[Len(s)]) THEN RStrip(SubSeq(s, 1, Len(s) - 1)) ELSE s

Strip(s) == RStrip(LStrip(s))

\* F applied to v.  It names a value that is used more than once: TLC's
\* coverage accounting copies a LET definition to each of its uses, and a
\* parameter it does not.
Let(v, F(_)) == F(v)

\* first position at or after p that holds no digit (greedy \d+ / \d*)
RECURSIVE DigitsEnd(_, _)
DigitsEnd(s, p) == IF p <= Len(s) /\ IsDigit(s[p]) THEN DigitsEnd(s, p + 1) ELSE p

\* first position at or after p that holds no white space (greedy \s+ / \s*)
RECURSIVE SpacesEnd(_, _)
SpacesEnd(s, p) == IF p <= Len(s) /\ IsSpace(s[p]) THEN SpacesEnd(s, p + 1) ELSE p

(***************************************************************************)
(* score_re = (\d+)\s*[:–\-]\s*(\d+) matched at position p.  Every         *)
(* quantifier is greedy and no shorter choice can succeed (the character   *)
(* after a shortened digit or space run is a digit or a space, which the   *)
(* next pattern element rejects), so the match at p is unique.  e1 ends    *)
(* group 1, q holds the separator, b2 and e2 delimit group 2.              *)
(***************************************************************************)
ScoreAt(s, p) ==
    Let(DigitsEnd(s, p), LAMBDA e1 :
    Let(SpacesEnd(s, e1), LAMBDA q :
    Let(SpacesEnd(s, q + 1), LAMBDA b2 :
    Let(DigitsEnd(s, b2), LAMBDA e2 :
        IF e1 > p /\ q <= Len(s) /\ IsSep(s[q]) /\ e2 > b2
        THEN [g1 |-> Slice(s, p, e1), g2 |-> Slice(s, b2, e2),
              start |-> p, end |-> e2]
        ELSE None))))

\* list(score_re.finditer(text)), scanning from position p
RECURSIVE FindIter(_, _)
FindIter(s, p) ==
    IF p > Len(s) THEN <<>>
    ELSE Let(ScoreAt(s, p), LAMBDA m :
             IF m # None THEN <<m>> \o FindIter(s, m.end)
             ELSE FindIter(s, p + 1))

\* line 128: whether a candidate counts as an unequal score
Unequal(m) == m.g1 # m.g2

\* lines 127-129: the loop "for m in reversed(all_matches)" over
\* all_matches[1..k]
RECURSIVE LastUnequal(_, _)
LastUnequal(all_matches, k) ==
    IF k = 0 THEN None
    ELSE IF Unequal(all_matches[k]) THEN all_matches[k]
    ELSE LastUnequal(all_matches, k - 1)

_find_final_score(t) ==
    Let(FindIter(t, 1), LAMBDA all_matches :
        IF all_matches = <<>> THEN None
        ELSE Let(LastUnequal(all_matches, Len(all_matches)), LAMBDA m :
                 IF m # None THEN m ELSE all_matches[Len(all_matches)]))

(***************************************************************************)
(* _build_match_dict                                                       *)
(***************************************************************************)
\* MatchResult with a tie counted as a win
MatchResultAtLeast(goals_for, goals_against) ==
    IF goals_for >= goals_against THEN "Pobeda" ELSE "Porazhenie"

\* lines 270-273: the result of a match with the given goals
MatchResult(goals_for, goals_against) ==
    IF goals_for > goals_against THEN "Pobeda" ELSE "Porazhenie"

\* lines 275-282: the dictionary returned
MatchDict(date_str, opponent, location, goals_for, goals_against) ==
    [date          |-> date_str,
     opponent      |-> opponent,
     location      |-> location,
     result        |-> MatchResult(goals_for, goals_against),
     goals_for     |-> goals_for,
     goals_against |-> goals_against]

\* _build_match_dict with the two tests in the other order
_build_match_dict_away_first(date_str, home_team, away_team, score_home, score_away) ==
    IF Contains(TEAM_NAME, away_team)
    THEN MatchDict(date_str, home_team, "Gostevoy", score_away, score_home)
    ELSE IF Contains(TEAM_NAME, home_team)
    THEN MatchDict(date_str, away_team, "Domashniy", score_home, score_away)
    ELSE None

_build_match_dict(date_str, home_team, away_team, score_home, score_away) ==
    IF Contains(TEAM_NAME, home_team)
    THEN MatchDict(date_str, away_team, "Domashniy", score_home, score_away)
    ELSE IF Contains(TEAM_NAME, away_team)
    THEN MatchDict(date_str, home_team, "Gostevoy", score_away, score_home)
    ELSE None

(***************************************************************************)
(* _parse_text: the two patterns                                           *)
(***************************************************************************)
Months ==
    {<<"ya", "n", "v", "a", "r", "ya">>,
     <<"f", "e", "v", "r", "a", "l", "ya">>,
     <<"m", "a", "r", "t", "a">>,
     <<"a", "p", "r", "e", "l", "ya">>,
     <<"m", "a", "ya">>,
     <<"i", "yu", "n", "ya">>,
     <<"i", "yu", "l", "ya">>,
     <<"a", "v", "g", "u", "s", "t", "a">>,
     <<"s", "e", "n", "t", "ya", "b", "r", "ya">>,
     <<"o", "k", "t", "ya", "b", "r", "ya">>,
     <<"n", "o", "ya", "b", "r", "ya">>,
     <<"d", "e", "k", "a", "b", "r", "ya">>}

\* whether s holds n digits from position p on (\d{n})
DigitsAt(s, p, n) ==
    /\ p + n - 1 <= Len(s)
    /\ \A k \in p..(p + n - 1) : IsDigit(s[k])

\* \d{2}\.\d{2}\.\d{4} matched at p: the position after the match, 0 if none
NumericDateEnd(s, p) ==
    IF /\ DigitsAt(s, p, 2) /\ StartsAt(s, p + 2, <<".">>)
       /\ DigitsAt(s, p + 3, 2) /\ StartsAt(s, p + 5, <<".">>)
       /\ DigitsAt(s, p + 6, 4)
    THEN p + 10 ELSE 0

\* (?:\s+\d{4})? matched at e: the position after it
YearEnd(s, e) ==
    Let(SpacesEnd(s, e), LAMBDA y :
        IF y > e /\ DigitsAt(s, y, 4) THEN y + 4 ELSE e)

\* the month names that s holds at position m (at most one: no name begins
\* another)
MonthsAt(s, m) == {mo \in Months : StartsAt(s, m, mo)}

\* \d{k}\s+(month)(?:\s+\d{4})? matched at p with the day taking k digits:
\* the position after the match, 0 if none
MonthDateEnd(s, p, k) ==
    Let(SpacesEnd(s, p + k), LAMBDA m :
    Let(MonthsAt(s, m), LAMBDA named :
        IF DigitsAt(s, p, k) /\ m > p + k /\ named # {}
        THEN YearEnd(s, m + Len(CHOOSE mo \in named : TRUE))
        ELSE 0))

\* date_pattern matched at p: first alternative (\d{1,2} greedy: two digits,
\* then one), then the second alternative
DateEndAt(s, p) ==
    Let(MonthDateEnd(s, p, 2), LAMBDA two :
        IF two # 0 THEN two
        ELSE Let(MonthDateEnd(s, p, 1), LAMBDA one :
                 IF one # 0 THEN one ELSE NumericDateEnd(s, p)))

\* date_pattern.search(line), scanning from p: the leftmost match with its
\* group(0), None if none
RECURSIVE DateSearch(_, _)
DateSearch(s, p) ==
    IF p > Len(s) THEN None
    ELSE Let(DateEndAt(s, p), LAMBDA e :
             IF e # 0 THEN [g0 |-> Slice(s, p, e)] ELSE DateSearch(s, p + 1))

\* the alternation (?:ОТ|OT|Б|SO|БУЛ), in its order
MARKERS ==
    << <<"O_", "T_">>, <<"O", "T">>, <<"B_">>, <<"S", "O">>, <<"B_", "U_", "L_">> >>

\* \s+(.+) matched at p at the end of game_pattern: where group 6 starts, 0
\* if no match.  \s+ is greedy and gives one space back only when it ran to
\* the end of the line.
TeamTailStart(s, p) ==
    Let(SpacesEnd(s, p), LAMBDA t :
        IF t = p THEN 0
        ELSE IF t <= Len(s) THEN t
        ELSE IF t - p >= 2 THEN t - 1
        ELSE 0)

\* the optional group \s*(?:marker)\s+(\d+)\s*[:–\-]\s*(\d+) followed by
\* \s+(.+), tried at p with the k-th marker: [score, g6] or None
OvertimeWith(s, p, k) ==
    Let(SpacesEnd(s, p), LAMBDA m0 :
    Let(SpacesEnd(s, m0 + Len(MARKERS[k])), LAMBDA p4 :
    Let(ScoreAt(s, p4), LAMBDA sc :
        IF StartsAt(s, m0, MARKERS[k]) /\ p4 > m0 + Len(MARKERS[k]) /\ sc # None
        THEN Let(TeamTailStart(s, sc.end), LAMBDA t :
                 IF t # 0 THEN [score |-> sc, g6 |-> t] ELSE None)
        ELSE None)))

\* the optional group with the first marker of the alternation with which
\* the rest of the pattern matches, None if there is none
RECURSIVE OvertimeFrom(_, _, _)
OvertimeFrom(s, p, k) ==
    IF k > Len(MARKERS) THEN None
    ELSE Let(OvertimeWith(s, p, k), LAMBDA ow :
             IF ow # None THEN ow ELSE OvertimeFrom(s, p, k + 1))

\* \s+(.+) directly after the regulation score sc (the optional group took no
\* part): groups 4 and 5 are <<>> (None in Python, equally false at line 235)
WithoutOvertime(s, sc) ==
    Let(TeamTailStart(s, sc.end), LAMBDA t :
        IF t # 0
        THEN [g2 |-> sc.g1, g3 |-> sc.g2, g4 |-> <<>>, g5 |-> <<>>,
              g6 |-> Slice(s, t, Len(s) + 1)]
        ELSE None)

\* everything of game_pattern after group 1, matched at position a:
\* \s+(\d+)\s*[:–\-]\s*(\d+)(?:...)?\s+(.+).  The optional group is greedy:
\* it is tried first, and given up only when the rest cannot match with it.
GameTailAt(s, a) ==
    Let(SpacesEnd(s, a), LAMBDA p2 :
    Let(ScoreAt(s, p2), LAMBDA sc :
        IF p2 = a \/ sc = None THEN None
        ELSE Let(OvertimeFrom(s, sc.end, 1), LAMBDA ow :
                 IF ow # None
                 THEN [g2 |-> sc.g1, g3 |-> sc.g2,
                       g4 |-> ow.score.g1, g5 |-> ow.score.g2,
                       g6 |-> Slice(s, ow.g6, Len(s) + 1)]
                 ELSE WithoutOvertime(s, sc))))

\* game_pattern.search(line).  Group 1 is (.+?): from the first character
\* of the line (a later start only leaves fewer ends to try) to the first
\* position a at which the rest of the pattern matches.
RECURSIVE GameSearchFrom(_, _)
GameSearchFrom(s, a) ==
    IF a > Len(s) THEN None
    ELSE Let(GameTailAt(s, a), LAMBDA rest :
             IF rest # None THEN [g1 |-> Slice(s, 1, a), rest |-> rest]
             ELSE GameSearchFrom(s, a + 1))

GameSearch(s) == GameSearchFrom(s, 2)

(***************************************************************************)
(* _parse_text: one pass of the loop over the lines (lines 220-244) and    *)
(* the whole function                                                      *)
(***************************************************************************)
\* lines 225-227: current_date after the date update of a stripped line
DateAfter(line, date) ==
    Let(DateSearch(line, 1), LAMBDA dm :
        IF dm # None THEN Strip(dm.g0) ELSE date)

\* lines 232-237: [score_home, score_away] of the match gm
LineScore(gm) ==
    IF gm.rest.g4 # <<>> /\ gm.rest.g5 # <<>>
    THEN <<ToInt(gm.rest.g4), ToInt(gm.rest.g5)>>
    ELSE <<ToInt(gm.rest.g2), ToInt(gm.rest.g3)>>

\* lines 239-242
TeamMatch(date, home_team, away_team, score) ==
    IF Contains(TEAM_NAME, home_team) \/ Contains(TEAM_NAME, away_team)
    THEN _build_match_dict(date, home_team, away_team, score[1], score[2])
    ELSE None

\* lines 229-242: the dictionary built from a stripped line, None if none
LineMatch(line, date) ==
    Let(GameSearch(line), LAMBDA gm :
        IF gm = None THEN None
        ELSE TeamMatch(date, Strip(gm.g1), Strip(gm.rest.g6), LineScore(gm)))

\* ParseStripped with the match built before the date update
ParseStrippedMatchFirst(line, date, found_so_far) ==
    Let(LineMatch(line, date), LAMBDA m :
        [date  |-> DateAfter(line, date),
         found |-> IF m # None THEN Append(found_so_far, m) ELSE found_so_far])

\* lines 225-244 for a stripped, non-empty line
ParseStripped(line, date, found_so_far) ==
    Let(DateAfter(line, date), LAMBDA d :
    Let(LineMatch(line, d), LAMBDA m :
        [date  |-> d,
         found |-> IF m # None THEN Append(found_so_far, m) ELSE found_so_far]))

\* one pass of "for line in lines": the new [date, found]
ParseLine(raw, date, found_so_far) ==
    Let(Strip(raw), LAMBDA line :
        IF line = <<>> THEN [date |-> date, found |-> found_so_far]
        ELSE ParseStripped(line, date, found_so_far))

\* the loop from line k on
RECURSIVE ParseLinesFrom(_, _, _, _)
ParseLinesFrom(ls, k, date, found_so_far) ==
    IF k > Len(ls) THEN found_so_far
    ELSE Let(ParseLine(ls[k], date, found_so_far), LAMBDA r :
             ParseLinesFrom(ls, k + 1, r.date, r.found))

_parse_text(ls) == ParseLinesFrom(ls, 1, <<>>, <<>>)

(***************************************************************************)
(* _parse_table_row.  A row is the sequence of its cells' texts.           *)
(***************************************************************************)
\* lines 189-197 for the cell i that holds score_match (i is 1-based:
\* Python's i is i - 1)
RowMatch(texts, i, score_match) ==
    LET home_team == IF i > 1 THEN texts[i - 1] ELSE <<>>
        away_team == IF i + 1 <= Len(texts) THEN texts[i + 1] ELSE <<>>
        date_str  == IF i > 2 THEN texts[1] ELSE <<>>
    IN  IF Contains(TEAM_NAME, home_team) \/ Contains(TEAM_NAME, away_team)
        THEN _build_match_dict(date_str, home_team, away_team,
                               ToInt(score_match.g1), ToInt(score_match.g2))
        ELSE None

\* RowFrom with the loop left at the first cell that holds a score
RECURSIVE RowFromFirstScore(_, _)
RowFromFirstScore(texts, i) ==
    IF i > Len(texts) THEN None
    ELSE Let(_find_final_score(texts[i]), LAMBDA score_match :
             IF score_match = None THEN RowFromFirstScore(texts, i + 1)
             ELSE RowMatch(texts, i, score_match))

\* the loop "for i, t in enumerate(texts)" from cell i on: it goes on to the
\* next cell when a cell holds no score and when its score has the tracked
\* team on neither side
RECURSIVE RowFrom(_, _)
RowFrom(texts, i) ==
    IF i > Len(texts) THEN None
    ELSE Let(_find_final_score(texts[i]), LAMBDA score_match :
             IF score_match = None THEN RowFrom(texts, i + 1)
             ELSE Let(RowMatch(texts, i, score_match), LAMBDA m :
                      IF m # None THEN m ELSE RowFrom(texts, i + 1)))

_parse_table_row(cols) ==
    IF Len(cols) < 3 THEN None
    ELSE RowFrom([k \in 1..Len(cols) |-> Strip(cols[k])], 1)

(***************************************************************************)
(* _parse_card.  A card is the sequence of its sub-elements in document    *)
(* order, each [cls, txt]: cls is "date" when the element's class matches  *)
(* date|time|day, "team" when it matches team|club, "other" otherwise.     *)
(***************************************************************************)
\* " ".join of two joined texts
JoinTwo(t, r) ==
    IF t = <<>> THEN r ELSE IF r = <<>> THEN t ELSE t \o <<" ">> \o r

\* card.get_text(separator=" ", strip=True): the stripped, non-empty texts
\* joined by one space
RECURSIVE CardText(_)
CardText(card) ==
    IF card = <<>> THEN <<>>
    ELSE JoinTwo(Strip(card[1].txt), CardText(Tail(card)))

\* re.search(r"\d{2}\.\d{2}\.\d{4}", text), scanning from p
RECURSIVE NumericDateSearch(_, _)
NumericDateSearch(s, p) ==
    IF p > Len(s) THEN None
    ELSE IF NumericDateEnd(s, p) # 0 THEN [g0 |-> Slice(s, p, p + 10)]
    ELSE NumericDateSearch(s, p + 1)

\* the stripped texts of the elements of class c, in order
RECURSIVE TextsOfClass(_, _)
TextsOfClass(card, c) ==
    IF card = <<>> THEN <<>>
    ELSE IF card[1].cls = c
    THEN <<Strip(card[1].txt)>> \o TextsOfClass(Tail(card), c)
    ELSE TextsOfClass(Tail(card), c)

\* the sequence without its empty strings
RECURSIVE NonEmpty(_)
NonEmpty(ts) ==
    IF ts = <<>> THEN <<>>
    ELSE IF ts[1] = <<>> THEN NonEmpty(Tail(ts))
    ELSE <<ts[1]>> \o NonEmpty(Tail(ts))

\* lines 153-158: the date when the date element gave none
LiteralOrFallback(ctext, fallback_date) ==
    Let(NumericDateSearch(ctext, 1), LAMBDA date_match :
        IF date_match # None THEN date_match.g0 ELSE fallback_date)

\* lines 148-158: card.find gives the first element of class "date"
CardDate(card, ctext, fallback_date) ==
    Let(TextsOfClass(card, "date"), LAMBDA date_els :
        IF date_els # <<>> /\ date_els[1] # <<>> THEN date_els[1]
        ELSE LiteralOrFallback(ctext, fallback_date))

\* lines 160-168
CardTeams(card, ctext, score_match) ==
    Let(NonEmpty(TextsOfClass(card, "team")), LAMBDA teams :
        IF Len(teams) < 2
        THEN <<Strip(Slice(ctext, 1, score_match.start)),
               Strip(Slice(ctext, score_match.end, Len(ctext) + 1))>>
        ELSE teams)

\* lines 145-176, for the card text ctext and its score
CardMatch(card, ctext, score_match, fallback_date) ==
    Let(CardTeams(card, ctext, score_match), LAMBDA teams :
        IF Len(teams) < 2 THEN None
        ELSE _build_match_dict(CardDate(card, ctext, fallback_date),
                               teams[1], teams[2],
                               ToInt(score_match.g1), ToInt(score_match.g2)))

_parse_card(card, fallback_date) ==
    Let(CardText(card), LAMBDA ctext :
    Let(_find_final_score(ctext), LAMBDA score_match :
        IF score_match = None THEN None
        ELSE CardMatch(card, ctext, score_match, fallback_date)))

(***************************************************************************)
(* parse_matches and main, step by step                                    *)
(***************************************************************************)
NSelectors == 7

\* lines 73-77: the result of the first selector that selects anything
RECURSIVE SelectCards(_, _)
SelectCards(sel, k) ==
    IF k > Len(sel) THEN <<>>
    ELSE IF sel[k] # <<>> \/ k = Len(sel) THEN sel[k]
    ELSE SelectCards(sel, k + 1)

NoCalls == [fetch_page |-> 0, parse_matches |-> 0, create_excel |-> 0]

\* main, lines 358-362: fetch_page returns the page or raises RequestException
Fetch(pages) ==
    /\ pc = "main"
    /\ calls' = [calls EXCEPT !.fetch_page = @ + 1]
    /\ \/ /\ html' \in pages
          /\ pc' = "parse"
          /\ UNCHANGED exit_status
       \/ /\ pc' = "exit"
          /\ exit_status' = 1
          /\ UNCHANGED html
    /\ UNCHANGED <<text, found, args, rec, cards, ci, current_date, ri, li,
                   tdate, tmatches, matches>>

\* parse_matches, lines 57-80
ParseStart ==
    /\ pc = "parse"
    /\ calls' = [calls EXCEPT !.parse_matches = @ + 1]
    /\ matches' = <<>>
    /\ cards' = SelectCards(html.sel, 1)
    /\ IF cards' # <<>>
       THEN pc' = "cards" /\ ci' = 1 /\ current_date' = <<>> /\ UNCHANGED ri
       ELSE pc' = "tables" /\ ri' = 1 /\ UNCHANGED <<ci, current_date>>
    /\ UNCHANGED <<text, found, args, rec, html, li, tdate, tmatches, exit_status>>

\* DateAfterCard with the update of current_date left out
DateAfterCardNever(m, date) == date

\* lines 84-85: current_date after a card that gave the dictionary m
DateAfterCard(m, date) == IF m.date # <<>> THEN m.date ELSE date

\* parse_matches, lines 81-86: one pass of "for card in cards"
CardStep ==
    /\ pc = "cards" /\ ci <= Len(cards)
    /\ Let(_parse_card(cards[ci], current_date), LAMBDA match :
           IF match # None
           THEN /\ current_date' = DateAfterCard(match, current_date)
                /\ matches' = Append(matches, match)
           ELSE UNCHANGED <<current_date, matches>>)
    /\ ci' = ci + 1
    /\ UNCHANGED <<pc, text, found, args, rec, html, cards, ri, li, tdate,
                   tmatches, calls, exit_status>>

\* ReturnsAfterCards with the early return left out
ReturnsAfterCardsNever(found_so_far) == FALSE

\* lines 87-88: whether parse_matches returns after the cards
ReturnsAfterCards(found_so_far) == found_so_far # <<>>

\* parse_matches, lines 87-93: after the last card
CardsDone ==
    /\ pc = "cards" /\ ci > Len(cards)
    /\ IF ReturnsAfterCards(matches)
       THEN pc' = "parsed" /\ UNCHANGED ri
       ELSE pc' = "tables" /\ ri' = 1
    /\ UNCHANGED <<text, found, args, rec, html, cards, ci, current_date, li,
                   tdate, tmatches, matches, calls, exit_status>>

\* parse_matches, lines 94-100: one row of one table
TableRow ==
    /\ pc = "tables" /\ ri <= Len(html.rows)
    /\ Let(_parse_table_row(html.rows[ri]), LAMBDA match :
           matches' = IF match # None THEN Append(matches, match) ELSE matches)
    /\ ri' = ri + 1
    /\ UNCHANGED <<pc, text, found, args, rec, html, cards, ci, current_date,
                   li, tdate, tmatches, calls, exit_status>>

\* parse_matches, lines 101-107, and _parse_text, lines 203-206
TablesDone ==
    /\ pc = "tables" /\ ri > Len(html.rows)
    /\ IF matches # <<>>
       THEN pc' = "parsed" /\ UNCHANGED <<li, tdate, tmatches>>
       ELSE pc' = "text" /\ li' = 1 /\ tdate' = <<>> /\ tmatches' = <<>>
    /\ UNCHANGED <<text, found, args, rec, html, cards, ci, current_date, ri,
                   matches, calls, exit_status>>

\* _parse_text, lines 220-244: one pass of "for line in lines"
TextLine ==
    /\ pc = "text" /\ li <= Len(html.lines)
    /\ Let(ParseLine(html.lines[li], tdate, tmatches), LAMBDA r :
           tdate' = r.date /\ tmatches' = r.found)
    /\ li' = li + 1
    /\ UNCHANGED <<pc, text, found, args, rec, html, cards, ci, current_date,
                   ri, matches, calls, exit_status>>

\* _parse_text, line 246, and parse_matches, lines 107-108
TextDone ==
    /\ pc = "text" /\ li > Len(html.lines)
    /\ matches' = tmatches
    /\ pc' = "parsed"
    /\ UNCHANGED <<text, found, args, rec, html, cards, ci, current_date, ri,
                   li, tdate, tmatches, calls, exit_status>>

\* CheckMatches with the test for an empty list left out
CheckMatchesAlwaysExports ==
    /\ pc = "parsed"
    /\ pc' = "export"
    /\ UNCHANGED <<text, found, args, rec, html, cards, ci, current_date, ri,
                   li, tdate, tmatches, matches, calls, exit_status>>

\* main, lines 367-375
CheckMatches ==
    /\ pc = "parsed"
    /\ IF matches = <<>>
       THEN pc' = "exit" /\ exit_status' = 1
       ELSE pc' = "export" /\ UNCHANGED exit_status
    /\ UNCHANGED <<text, found, args, rec, html, cards, ci, current_date, ri,
                   li, tdate, tmatches, matches, calls>>

\* main, lines 376-377: create_excel writes the file and main returns, or
\* wb.save raises and the interpreter exits with status 1
Export ==
    /\ pc = "export"
    /\ calls' = [calls EXCEPT !.create_excel = @ + 1]
    /\ pc' = "exit"
    /\ \/ exit_status' = 0
       \/ exit_status' = 1
    /\ UNCHANGED <<text, found, args, rec, html, cards, ci, current_date, ri,
                   li, tdate, tmatches, matches>>

(***************************************************************************)
(* Inputs.                                                                 *)
(***************************************************************************)
\* all strings over alphabet A of length at most n
StringsUpTo(A, n) == UNION {[1..k -> A] : k \in 0..n}

\* " ".join(ts)
RECURSIVE Join(_)
Join(ts) ==
    IF ts = <<>> THEN <<>>
    ELSE IF Len(ts) = 1 THEN ts[1]
    ELSE ts[1] \o <<" ">> \o Join(Tail(ts))

ScoreAlphabet == {"0", "1", ":", " "}

CSKA == <<"C_", "S_", "K_", "A_">>

Date1 == <<"1", "2", ".", "1", "0", ".", "2", "0", "2", "4">>

Date2 == <<"0", "5", ".", "1", "1", ".", "2", "0", "2", "4">>

May5 == <<"5", " ", "m", "a", "ya">>

TeamTexts ==
    {<<>>, TEAM_NAME, <<"H_", "K_", " ">> \o TEAM_NAME, CSKA,
     <<"S_", "i", "b", "i", "r">>}

DateTexts == {<<>>, Date1}

Scores == 0..2

\* the words a single text line is made of
LineWords ==
    {TEAM_NAME, CSKA, <<"3", ":", "2">>, <<"4", ":", "3">>, <<"O_", "T_">>}

\* the lines a text of several lines is made of
LineCatalogue ==
    {<<" ">>, Date1, May5,
     Join(<<TEAM_NAME, <<"3", ":", "2">>, CSKA>>),
     Join(<<Date2, CSKA, <<"1", ":", "2">>, TEAM_NAME>>),
     Join(<<CSKA, <<"1", ":", "0">>, CSKA>>)}

\* the texts a table cell holds
CellTexts ==
    {<<>>, TEAM_NAME, CSKA, <<"3", ":", "2">>, <<"0", "-", "1">>, Date1}

El(cls, txt) == [cls |-> cls, txt |-> txt]

\* the card fragments of a page of cards
CardCatalogue ==
    {<<El("date", Date1), El("team", TEAM_NAME), El("other", <<"3", ":", "2">>),
       El("team", CSKA)>>,
     <<El("team", CSKA), El("other", <<"1", ":", "2">>), El("team", TEAM_NAME)>>,
     <<El("date", Date2), El("team", CSKA), El("other", <<"1", ":", "0">>),
       El("team", CSKA)>>,
     <<El("other", Join(<<Date2, TEAM_NAME, <<"2", ":", "1">>, CSKA>>))>>,
     <<El("other", <<"3", ":", "2">>), El("other", TEAM_NAME)>>,
     <<El("date", <<" ">>), El("other", Join(<<TEAM_NAME, <<"4", ":", "1">>, CSKA>>))>>,
     <<El("date", Date1)>>}

\* what the selectors after the first successful one select
Decoy == << <<El("other", Join(<<CSKA, <<"0", ":", "1">>, TEAM_NAME>>))>> >>

\* the page whose k-th selector is the first to select anything, cs
SelectorResults(k, cs) ==
    [i \in 1..NSelectors |-> IF i < k THEN <<>> ELSE IF i = k THEN cs ELSE Decoy]

NoPage == [sel |-> [i \in 1..NSelectors |-> <<>>], rows |-> <<>>, lines |-> <<>>]

\* the parts of the pages given to main
MainCards ==
    {<<El("date", Date1), El("team", TEAM_NAME), El("other", <<"3", ":", "2">>),
       El("team", CSKA)>>,
     <<El("team", CSKA), El("other", <<"1", ":", "0">>), El("team", CSKA)>>,
     <<El("other", Join(<<CSKA, <<"2", ":", "2">>, TEAM_NAME>>))>>}

MainRows ==
    {<<Date1, TEAM_NAME, <<"3", ":", "2">>, CSKA>>,
     <<CSKA, <<"1", ":", "0">>, CSKA>>,
     <<Date2, CSKA, <<"1", ":", "1", " ", "2", ":", "2">>, TEAM_NAME>>}

MainLines ==
    {Join(<<TEAM_NAME, <<"3", ":", "2">>, <<"O_", "T_">>, <<"4", ":", "3">>, CSKA>>),
     Join(<<Date1, CSKA, <<"1", ":", "1">>, TEAM_NAME>>)}

MainSelectors == {1, NSelectors}

\* the cards, rows and lines of a page: at most MaxPart together
MainParts ==
    {p \in StringsUpTo(MainCards, MaxPart) \X StringsUpTo(MainRows, MaxPart)
            \X StringsUpTo(MainLines, MaxPart) :
        Len(p[1]) + Len(p[2]) + Len(p[3]) <= MaxPart}

MainPages ==
    {[sel |-> SelectorResults(k, p[1]), rows |-> p[2], lines |-> p[3]] :
        k \in MainSelectors, p \in MainParts}

\* the values of the variables no call has touched
NoLocals ==
    /\ cards = <<>> /\ ci = 0 /\ current_date = <<>> /\ ri = 0 /\ li = 0
    /\ tdate = <<>> /\ tmatches = <<>> /\ matches = <<>>
    /\ calls = NoCalls /\ exit_status = -1

\* html is None until fetch_page has returned a page
MainIdle == html = None /\ NoLocals

NoPure == text = <<>> /\ found = None /\ args = None /\ rec = None

UNCHANGED_main ==
    UNCHANGED <<html, cards, ci, current_date, ri, li, tdate, tmatches,
                matches, calls, exit_status>>

(***************************************************************************)
(* Spec: main on every page of MainPages.                                  *)
(***************************************************************************)
Init == pc = "main" /\ NoPure /\ MainIdle

Next ==
    \/ Fetch(MainPages)
    \/ ParseStart
    \/ CardStep
    \/ CardsDone
    \/ TableRow
    \/ TablesDone
    \/ TextLine
    \/ TextDone
    \/ CheckMatches
    \/ Export

Spec == Init /\ [][Next]_vars

(***************************************************************************)
(* SpecCards: parse_matches on pages of cards only.                        *)
(***************************************************************************)
CardPages ==
    {[sel |-> SelectorResults(k, cs), rows |-> <<>>, lines |-> <<>>] :
        k \in MainSelectors, cs \in StringsUpTo(CardCatalogue, MaxCards)}

InitCards == pc = "parse" /\ NoPure /\ html \in CardPages /\ NoLocals

NextCards == ParseStart \/ CardStep \/ CardsDone

SpecCards == InitCards /\ [][NextCards]_vars

(***************************************************************************)
(* SpecTable: the row loop of parse_matches on every one-row table.        *)
(***************************************************************************)
RowPages ==
    {[sel |-> NoPage.sel, rows |-> <<r>>, lines |-> <<>>] :
        r \in StringsUpTo(CellTexts, MaxCells)}

InitTable ==
    /\ pc = "tables" /\ NoPure /\ html \in RowPages
    /\ cards = <<>> /\ ci = 0 /\ current_date = <<>> /\ ri = 1 /\ li = 0
    /\ tdate = <<>> /\ tmatches = <<>> /\ matches = <<>>
    /\ calls = [NoCalls EXCEPT !.parse_matches = 1] /\ exit_status = -1

NextTable == TableRow \/ TablesDone

SpecTable == InitTable /\ [][NextTable]_vars

(***************************************************************************)
(* SpecText: _parse_text on every single line of LineWords and on every    *)
(* text of lines of LineCatalogue.                                         *)
(***************************************************************************)
SingleLines == {<<Join(ws)>> : ws \in StringsUpTo(LineWords, MaxTokens)}

TextPages ==
    {[sel |-> NoPage.sel, rows |-> <<>>, lines |-> ls] :
        ls \in SingleLines \cup StringsUpTo(LineCatalogue, MaxLines)}

InitText ==
    /\ pc = "text" /\ NoPure /\ html \in TextPages
    /\ cards = <<>> /\ ci = 0 /\ current_date = <<>> /\ ri = 1 /\ li = 1
    /\ tdate = <<>> /\ tmatches = <<>> /\ matches = <<>>
    /\ calls = [NoCalls EXCEPT !.parse_matches = 1] /\ exit_status = -1

NextText == TextLine \/ TextDone

SpecText == InitText /\ [][NextText]_vars

(***************************************************************************)
(* SpecScore: _find_final_score applied to every text of ScoreAlphabet.    *)
(***************************************************************************)
InitScore ==
    /\ pc = "call"
    /\ text \in StringsUpTo(ScoreAlphabet, MaxLen)
    /\ found = None
    /\ args = None /\ rec = None
    /\ MainIdle

\* the call _find_final_score(text)
LocateScore ==
    /\ pc = "call"
    /\ found' = _find_final_score(text)
    /\ pc' = "done"
    /\ UNCHANGED <<text, args, rec>>
    /\ UNCHANGED_main

NextScore == LocateScore

SpecScore == InitScore /\ [][NextScore]_vars

(***************************************************************************)
(* SpecBuild: _build_match_dict applied to every argument tuple.           *)
(***************************************************************************)
InitBuild ==
    /\ pc = "call"
    /\ args \in [date_str : DateTexts, home_team : TeamTexts,
                 away_team : TeamTexts, score_home : Scores, score_away : Scores]
    /\ rec = None
    /\ text = <<>> /\ found = None
    /\ MainIdle

BuildMatch ==
    /\ pc = "call"
    /\ rec' = _build_match_dict(args.date_str, args.home_team, args.away_team,
                                args.score_home, args.score_away)
    /\ pc' = "done"
    /\ UNCHANGED <<text, found, args>>
    /\ UNCHANGED_main

NextBuild == BuildMatch

SpecBuild == InitBuild /\ [][NextBuild]_vars

(***************************************************************************)
(* What the claims speak of.                                               *)
(***************************************************************************)
\* the card strategy: the records of the cards cs[k..], in page order
RECURSIVE CardRecords(_, _, _, _)
CardRecords(cs, k, date, acc) ==
    IF k > Len(cs) THEN acc
    ELSE Let(_parse_card(cs[k], date), LAMBDA m :
             IF m = None THEN CardRecords(cs, k + 1, date, acc)
             ELSE CardRecords(cs, k + 1, DateAfterCard(m, date), Append(acc, m)))

CardStrategy(page) == CardRecords(SelectCards(page.sel, 1), 1, <<>>, <<>>)

\* the table strategy: the records of the rows rs[k..]
RECURSIVE TableRecords(_, _)
TableRecords(rs, k) ==
    IF k > Len(rs) THEN <<>>
    ELSE Let(_parse_table_row(rs[k]), LAMBDA m :
             IF m = None THEN TableRecords(rs, k + 1)
             ELSE <<m>> \o TableRecords(rs, k + 1))

TableStrategy(page) == TableRecords(page.rows, 1)

TextStrategy(page) == _parse_text(page.lines)

\* parse_matches has returned
Parsed == pc \in {"parsed", "export", "exit"} /\ calls.parse_matches = 1

\* the record r has the goals (a, b) of a score "a:b" on its own side
DerivedFrom(r, a, b) ==
    IF r.location = "Domashniy"
    THEN r.goals_for = a /\ r.goals_against = b
    ELSE r.goals_for = b /\ r.goals_against = a

\* the greatest and the least element of a non-empty set of numbers
Max(S) == CHOOSE k \in S : \A j \in S : j <= k

Min(S) == CHOOSE k \in S : \A j \in S : k <= j

\* the elements of the set S of numbers, in increasing order
RECURSIVE Ascending(_)
Ascending(S) == IF S = {} THEN <<>> ELSE <<Min(S)>> \o Ascending(S \ {Min(S)})

(***************************************************************************)
(* C1.  parse_matches returns exactly the card strategy's records when     *)
(* there are any, otherwise exactly the table strategy's records when      *)
(* there are any, otherwise exactly the text strategy's records: never     *)
(* records of two strategies, and the card records even when the table     *)
(* strategy would give other or more records.                              *)
(***************************************************************************)
C1_PipelinePrecedence ==
    Parsed =>
        matches = IF CardStrategy(html) # <<>> THEN CardStrategy(html)
                  ELSE IF TableStrategy(html) # <<>> THEN TableStrategy(html)
                  ELSE TextStrategy(html)

C1_Witness ==
    /\ Parsed
    /\ matches # <<>>
    /\ matches = CardStrategy(html)
    /\ Len(TableStrategy(html)) > Len(matches)

(***************************************************************************)
(* C2.  For every text, with c1..cn its score candidates in left-to-right  *)
(* order, _find_final_score returns absent iff n = 0, otherwise the last   *)
(* candidate whose two numbers differ as numbers, and cn when the two      *)
(* numbers are equal in every candidate.                                   *)
(***************************************************************************)
Candidates(t) == FindIter(t, 1)

UnequalAsNumbers(c) == ToInt(c.g1) # ToInt(c.g2)

ExpectedFinalScore(t) ==
    LET cs == Candidates(t)
        uneq == {k \in 1..Len(cs) : UnequalAsNumbers(cs[k])}
    IN  IF cs = <<>> THEN None
        ELSE IF uneq = {} THEN cs[Len(cs)]
        ELSE cs[Max(uneq)]

C2_FinalScoreComparesNumbers ==
    pc = "done" => found = ExpectedFinalScore(text)

(***************************************************************************)
(* C3.  Every record of parse_matches, whichever strategy gave it, has     *)
(* result "Pobeda" (win) iff goals_for > goals_against; a record with      *)
(* equal goals has result "Porazhenie" (loss).                             *)
(***************************************************************************)
OutcomeOk(r) ==
    /\ r.result \in {"Pobeda", "Porazhenie"}
    /\ r.result = "Pobeda" <=> r.goals_for > r.goals_against
    /\ r.goals_for = r.goals_against => r.result = "Porazhenie"

C3_OutcomeInvariant ==
    /\ \A k \in 1..Len(matches) : OutcomeOk(matches[k])
    /\ \A k \in 1..Len(tmatches) : OutcomeOk(tmatches[k])

C3_Witness ==
    /\ Parsed
    /\ matches = TableStrategy(html)
    /\ \E k \in 1..Len(matches) :
          /\ matches[k].goals_for = matches[k].goals_against
          /\ matches[k].result = "Porazhenie"
    /\ \E k \in 1..Len(matches) : matches[k].result = "Pobeda"

(***************************************************************************)
(* C4.  _build_match_dict returns absent iff the tracked team's name is a  *)
(* substring of neither team.  In teamA: venue home, opponent teamB,       *)
(* goals (scoreA, scoreB).  In teamB only: venue away, opponent teamA,     *)
(* goals (scoreB, scoreA).  The date is dateStr unchanged.                 *)
(***************************************************************************)
IsSubstring(sub, s) == \E u, v \in 0..Len(s) : u <= v /\ Slice(s, u + 1, v + 1) = sub

C4_BuildMatchDict ==
    pc = "done" /\ args # None =>
        LET inA == IsSubstring(TEAM_NAME, args.home_team)
            inB == IsSubstring(TEAM_NAME, args.away_team)
        IN  /\ rec = None <=> ~inA /\ ~inB
            /\ inA =>
                  /\ rec.location = "Domashniy"
                  /\ rec.opponent = args.away_team
                  /\ rec.goals_for = args.score_home
                  /\ rec.goals_against = args.score_away
                  /\ rec.date = args.date_str
            /\ ~inA /\ inB =>
                  /\ rec.location = "Gostevoy"
                  /\ rec.opponent = args.home_team
                  /\ rec.goals_for = args.score_away
                  /\ rec.goals_against = args.score_home
                  /\ rec.date = args.date_str

C4_Witness ==
    /\ pc = "done" /\ args # None /\ rec # None
    /\ args.home_team = CSKA
    /\ args.away_team = <<"H_", "K_", " ">> \o TEAM_NAME
    /\ args.score_home = 2 /\ args.score_away = 1 /\ args.date_str = Date1
    /\ rec.location = "Gostevoy" /\ rec.goals_for = 1

(***************************************************************************)
(* C5.  A run of main whose fetch fails, or whose parse gives no record,   *)
(* ends with a non-zero exit status and never calls the export; the export *)
(* is called once, before a zero exit status, only after a successful      *)
(* fetch and a parse with at least one record.  A failed fetch ends the    *)
(* run before any parsing and is not retried.                              *)
(***************************************************************************)
FetchFailed == calls.fetch_page > 0 /\ html = None

C5_ExitAndExport ==
    /\ calls.fetch_page <= 1
    /\ calls.create_excel <= 1
    /\ FetchFailed =>
          /\ pc = "exit" /\ exit_status > 0
          /\ calls.parse_matches = 0 /\ calls.create_excel = 0
    /\ pc = "exit" /\ matches = <<>> =>
          exit_status > 0 /\ calls.create_excel = 0
    /\ calls.create_excel > 0 =>
          html # None /\ calls.parse_matches = 1 /\ Len(matches) >= 1
    /\ exit_status = 0 => pc = "exit" /\ calls.create_excel = 1
    /\ pc = "exit" <=> exit_status # -1

C5_Witness ==
    /\ pc = "exit" /\ ~FetchFailed /\ calls.parse_matches = 1
    /\ matches = <<>> /\ exit_status = 1 /\ calls.create_excel = 0
    /\ SelectCards(html.sel, 1) # <<>> /\ html.rows # <<>>

(***************************************************************************)
(* The lines of a text that give a record, and the records they give.      *)
(***************************************************************************)
\* a line gives a record whatever the date is
GivesRecord(raw) == LineMatch(Strip(raw), <<>>) # None

\* the positions, among the first n lines, of the lines that give a record
YieldingLines(ls, n) == Ascending({i \in 1..n : GivesRecord(ls[i])})

\* the lines processed so far
LinesDone == IF pc = "text" THEN li - 1 ELSE Len(html.lines)

(***************************************************************************)
(* C6.  In the text strategy, for every line that matches the match-line   *)
(* pattern and names the tracked team: when an overtime/shootout marker    *)
(* followed by a second score stands after the regulation score, the       *)
(* record's goals are those of that second score; when none does, they are *)
(* those of the regulation score.                                          *)
(***************************************************************************)
\* the regulation score of a line that gives a record: the first score of
\* the line that has text and white space before it
RegulationScore(line) ==
    LET gm == GameSearch(line)
    IN  ScoreAt(line, SpacesEnd(line, Len(gm.g1) + 1))

\* the scores that follow an overtime marker standing right after position p
MarkedScoresAt(line, p) ==
    {ScoreAt(line, SpacesEnd(line, SpacesEnd(line, p) + Len(MARKERS[k]))) :
        k \in {j \in 1..Len(MARKERS) :
                  /\ StartsAt(line, SpacesEnd(line, p), MARKERS[j])
                  /\ IsSpace((line \o <<"$">>)[SpacesEnd(line, p) + Len(MARKERS[j])])}}
    \ {None}

OvertimeSupersedes(r, line) ==
    LET reg == RegulationScore(line)
        ot  == MarkedScoresAt(line, reg.end)
    IN  IF ot # {}
        THEN \E sc \in ot : DerivedFrom(r, ToInt(sc.g1), ToInt(sc.g2))
        ELSE DerivedFrom(r, ToInt(reg.g1), ToInt(reg.g2))

C6_OvertimeSupersedes ==
    pc \in {"text", "parsed"} =>
        LET from == YieldingLines(html.lines, LinesDone)
        IN  /\ Len(tmatches) = Len(from)
            /\ \A k \in 1..Len(from) :
                  OvertimeSupersedes(tmatches[k], Strip(html.lines[from[k]]))

(***************************************************************************)
(* C7.  In the text strategy the record of line i carries the date         *)
(* expression of the last line j <= i that holds one, and the empty string *)
(* if there is none; the date of the match's own line counts, a later line *)
(* changes no record, and the records stand in line order.                 *)
(***************************************************************************)
HasDate(raw) == DateSearch(Strip(raw), 1) # None

DateOfLine(raw) == DateSearch(Strip(raw), 1).g0

\* the date in force at line i
DateInForce(ls, i) ==
    LET dated == {j \in 1..i : HasDate(ls[j])}
    IN  IF dated = {} THEN <<>> ELSE DateOfLine(ls[Max(dated)])

C7_TextDateContext ==
    pc \in {"text", "parsed"} =>
        LET from == YieldingLines(html.lines, LinesDone)
        IN  /\ Len(tmatches) = Len(from)
            /\ \A k \in 1..Len(from) :
                  tmatches[k] = LineMatch(Strip(html.lines[from[k]]),
                                          DateInForce(html.lines, from[k]))

C7_Witness ==
    /\ pc = "parsed"
    /\ Len(html.lines) = 3
    /\ html.lines[1] = Date1
    /\ GivesRecord(html.lines[2]) /\ HasDate(html.lines[2])
    /\ GivesRecord(html.lines[3]) /\ ~HasDate(html.lines[3])
    /\ Len(matches) = 2
    /\ matches[1].date = Date2 /\ matches[2].date = Date2

(***************************************************************************)
(* The cells of a table row.                                               *)
(***************************************************************************)
\* the stripped texts of the cells of the row
CellsOf(cols) == [k \in 1..Len(cols) |-> Strip(cols[k])]

\* the cells that hold a locatable score
ScoreCells(texts) == {i \in 1..Len(texts) : _find_final_score(texts[i]) # None}

\* team A and team B of the score cell i
TeamA(texts, i) == IF i > 1 THEN texts[i - 1] ELSE <<>>

TeamB(texts, i) == IF i < Len(texts) THEN texts[i + 1] ELSE <<>>

NamesTeam(texts, i) ==
    IsSubstring(TEAM_NAME, TeamA(texts, i)) \/ IsSubstring(TEAM_NAME, TeamB(texts, i))

\* the records are the one record of the row, built from its score cell i
OneRecordFromCell(texts, i) ==
    /\ Len(matches) = 1
    /\ matches[1] =
          Let(_find_final_score(texts[i]), LAMBDA sc :
              _build_match_dict(matches[1].date, TeamA(texts, i), TeamB(texts, i),
                                ToInt(sc.g1), ToInt(sc.g2)))

\* the one row of the page has been read
RowRead == pc # "tables" \/ ri > Len(html.rows)

(***************************************************************************)
(* C8, as stated.  A row with fewer than 3 cells or no score cell gives no *)
(* record; otherwise, with i the first score cell, the row gives a record  *)
(* iff the tracked team is named in cell i-1 or cell i+1, with the score   *)
(* of cell i, and score cells to the right of i are never used.            *)
(***************************************************************************)
C8_FirstScoreCellOnly ==
    RowRead /\ Len(html.rows) = 1 =>
        LET texts == CellsOf(html.rows[1])
        IN  IF Len(texts) < 3 \/ ScoreCells(texts) = {} THEN matches = <<>>
            ELSE IF NamesTeam(texts, Min(ScoreCells(texts)))
            THEN OneRecordFromCell(texts, Min(ScoreCells(texts)))
            ELSE matches = <<>>

(***************************************************************************)
(* C8, amended.  A row with fewer than 3 cells gives no record; otherwise, *)
(* with i the first score cell that has the tracked team named in cell i-1 *)
(* or cell i+1, the row gives exactly one record, with the score of cell   *)
(* i, and it gives no record when there is no such cell.  Score cells left *)
(* of i are passed over, cells right of i are never used.                  *)
(***************************************************************************)
TeamScoreCells(texts) == {i \in ScoreCells(texts) : NamesTeam(texts, i)}

C8_FirstTeamScoreCell ==
    RowRead /\ Len(html.rows) = 1 =>
        LET texts == CellsOf(html.rows[1])
        IN  IF Len(texts) < 3 \/ TeamScoreCells(texts) = {} THEN matches = <<>>
            ELSE OneRecordFromCell(texts, Min(TeamScoreCells(texts)))

C8_Witness ==
    /\ RowRead /\ Len(html.rows) = 1
    /\ Len(matches) = 1
    /\ LET texts == CellsOf(html.rows[1])
       IN  /\ Cardinality(TeamScoreCells(texts)) = 1
           /\ Min(ScoreCells(texts)) < Min(TeamScoreCells(texts))
           /\ matches[1].goals_for = 0 /\ matches[1].goals_against = 1

(***************************************************************************)
(* The cards of a page that give a record.                                 *)
(***************************************************************************)
\* a card gives a record whatever the inherited date is
CardGivesRecord(card) == _parse_card(card, <<>>) # None

\* the cards read so far
CardsRead == IF pc = "cards" THEN ci - 1 ELSE Len(cards)

\* the positions, among the first n cards, of the cards that give a record
YieldingCards(cs, n) == Ascending({i \in 1..n : CardGivesRecord(cs[i])})

\* the date the card has of its own, the empty string if none: the text of
\* its first date sub-element, or else the first dd.mm.yyyy literal
OwnDate(card) == CardDate(card, CardText(card), <<>>)

\* the card has a score, so that its date is looked for
DateLookedFor(card) == _find_final_score(CardText(card)) # None

\* a card without a non-empty date sub-element and without a literal
NoDateAtAll(card) ==
    /\ NonEmpty(TextsOfClass(card, "date")) = <<>>
    /\ NumericDateSearch(CardText(card), 1) = None

(***************************************************************************)
(* C9, as stated.  A record built from a card with no date of its own      *)
(* carries the date of the nearest preceding card in which a date was      *)
(* found, the empty string if there is none; a record built from a card    *)
(* with a date of its own carries that date.                               *)
(***************************************************************************)
C9_InheritsNearestDatedCard ==
    LET from == YieldingCards(cards, CardsRead)
    IN  /\ Len(matches) = Len(from)
        /\ \A k \in 1..Len(from) :
              LET c == cards[from[k]]
                  dated == {j \in 1..(from[k] - 1) :
                               DateLookedFor(cards[j]) /\ OwnDate(cards[j]) # <<>>}
              IN  /\ OwnDate(c) # <<>> => matches[k].date = OwnDate(c)
                  /\ NoDateAtAll(c) =>
                        matches[k].date = IF dated = {} THEN <<>>
                                          ELSE OwnDate(cards[Max(dated)])

(***************************************************************************)
(* C9, amended.  A record built from a card with no date of its own        *)
(* carries the date of the nearest preceding card that gave a record and   *)
(* has a date of its own, the empty string if there is none: a dated card  *)
(* that gives no record passes no date on.  A record built from a card     *)
(* with a date of its own (the text of its first date sub-element, or else *)
(* a dd.mm.yyyy literal of its text) carries that date.                    *)
(***************************************************************************)
C9_InheritsNearestDatedRecord ==
    LET from == YieldingCards(cards, CardsRead)
    IN  /\ Len(matches) = Len(from)
        /\ \A k \in 1..Len(from) :
              LET c == cards[from[k]]
                  dated == {j \in 1..(from[k] - 1) :
                               CardGivesRecord(cards[j]) /\ OwnDate(cards[j]) # <<>>}
              IN  matches[k].date =
                      IF OwnDate(c) # <<>> THEN OwnDate(c)
                      ELSE IF dated = {} THEN <<>>
                      ELSE OwnDate(cards[Max(dated)])

C9_Witness ==
    /\ pc = "parsed" /\ Len(cards) = 3 /\ Len(matches) = 2
    /\ CardGivesRecord(cards[1]) /\ OwnDate(cards[1]) = Date1
    /\ ~CardGivesRecord(cards[2]) /\ DateLookedFor(cards[2])
    /\ OwnDate(cards[2]) = Date2
    /\ CardGivesRecord(cards[3]) /\ NoDateAtAll(cards[3])
    /\ matches[2].date = Date1

(***************************************************************************)
(* C10.  Every record of the table strategy has a non-empty opponent: a    *)
(* row whose score cell is the first or the last cell, so that team A or   *)
(* team B is the empty string, gives no record.                            *)
(***************************************************************************)
C10_NonEmptyOpponent ==
    \A k \in 1..Len(matches) : matches[k].opponent # <<>>

====
